---------------------------- MODULE Spec2Model ----------------------------
(***************************************************************************)
(* A model of the InfluxDB reporter of go-metrics-influxdb (influxdb.go):  *)
(* the startup call InfluxDB, reporter.makeClient, the loop reporter.run   *)
(* with its two tickers, and the translation of the registry into a batch  *)
(* of points in reporter.send.                                             *)
(*                                                                         *)
(* float64 values are modelled as reduced fractions [n, d], so a float64   *)
(* division is exact where the machine's is rounded; int64 values are      *)
(* integers and an int64 division truncates, as Go's does.                 *)
(***************************************************************************)
EXTENDS Integers, Sequences, FiniteSets, TLC

VARIABLES
    pc,         \* where the startup call is: "init", "run", "returned", "crashed"
    rawurl,     \* the url argument of InfluxDB
    tagHost,    \* reporter.tagHost
    client,     \* reporter.client: NIL or a handle
    armed,      \* whether run() created its two tickers
    reg,        \* reporter.reg: metric name -> instrument (or Absent)
    now,        \* the clock time.Now() reads
    dbUp,       \* environment: the database answers pings and writes
    canBuild,   \* environment: client.NewClient succeeds
    lastEmit,   \* what the last call of send() did
    lastHealth, \* what the last health tick did
    pings,      \* the outcomes of the last MaxHist completed pings
    log         \* the messages the last handler logged

vars == <<pc, rawurl, tagHost, client, armed, reg, now, dbUp, canBuild,
          lastEmit, lastHealth, pings, log>>

---------------------------------------------------------------------------
(* Bounds of the model *)

\* the clock saturates here
MaxClock == 2

\* how many ping outcomes the history keeps
MaxHist == 3

---------------------------------------------------------------------------
(* Numbers: float64 as a reduced fraction, int64 as an integer *)

RECURSIVE GCD(_, _)
GCD(a, b) == IF b = 0 THEN a ELSE GCD(b, a % b)

Abs(a) == IF a < 0 THEN -a ELSE a

\* the float64 n/d, reduced (d > 0)
Float(n, d) ==
    LET g == GCD(Abs(n), d)
    IN  IF n = 0 THEN [n |-> 0, d |-> 1] ELSE [n |-> n \div g, d |-> d \div g]

\* time.Millisecond.Nanoseconds()
NsPerMs == 1000000

\* x / float64(k) on float64
FloatDiv(x, k) == Float(x.n, x.d * k)

\* a / k on int64: Go truncates toward zero
IntDiv(a, k) == IF a >= 0 THEN a \div k ELSE -((-a) \div k)

---------------------------------------------------------------------------
(* The registry and its instruments (go-metrics, read through its getters) *)

\* no entry under a name
Absent == [kind |-> "absent"]

Names == {"latency", "requests"}

CounterA == [kind |-> "Counter", Count |-> 42]
GaugeA == [kind |-> "Gauge", Value |-> -7]
GaugeFloatA == [kind |-> "GaugeFloat64", Value |-> Float(5, 2)]
HistogramA ==
    [kind |-> "Histogram", Count |-> 4, Max |-> 9, Mean |-> Float(11, 2),
     Min |-> 2, StdDev |-> Float(5, 2), Variance |-> Float(25, 4),
     Ps |-> <<Float(5, 1), Float(7, 1), Float(9, 1), Float(9, 1),
              Float(9, 1), Float(9, 1)>>]
MeterA ==
    [kind |-> "Meter", Count |-> 3, Rate1 |-> Float(1, 2), Rate5 |-> Float(1, 4),
     Rate15 |-> Float(1, 8), RateMean |-> Float(3, 10)]
\* whole milliseconds
TimerA ==
    [kind |-> "Timer", Count |-> 10, Max |-> 5000000, Mean |-> Float(2500000, 1),
     Min |-> 1000000, StdDev |-> Float(1000000, 1), Variance |-> Float(3000000, 1),
     Ps |-> <<Float(2000000, 1), Float(3000000, 1), Float(4000000, 1),
              Float(5000000, 1), Float(5000000, 1), Float(5000000, 1)>>,
     Rate1 |-> Float(1, 2), Rate5 |-> Float(1, 4), Rate15 |-> Float(1, 8),
     RateMean |-> Float(3, 10)]
\* durations that are not whole milliseconds
TimerB ==
    [kind |-> "Timer", Count |-> 2, Max |-> 4700000, Mean |-> Float(3100000, 1),
     Min |-> 1500000, StdDev |-> Float(1600000, 1), Variance |-> Float(2560000, 1),
     Ps |-> <<Float(3100000, 1), Float(4700000, 1), Float(4700000, 1),
              Float(4700000, 1), Float(4700000, 1), Float(4700000, 1)>>,
     Rate1 |-> Float(1, 5), Rate5 |-> Float(1, 5), Rate15 |-> Float(1, 5),
     RateMean |-> Float(1, 5)]
\* a kind reporter.send has no case for
HealthcheckA == [kind |-> "Healthcheck"]

Instruments ==
    {CounterA, GaugeA, GaugeFloatA, HistogramA, MeterA, TimerA, TimerB, HealthcheckA}

Registries == [Names -> Instruments \cup {Absent}]

Registered(r) == {n \in Names : r[n] # Absent}

\* the orders in which Registry.Each may visit the entries (it promises none)
EachOrders(r) ==
    {o \in [1..Cardinality(Registered(r)) -> Registered(r)] :
        \A i, j \in DOMAIN o : i # j => o[i] # o[j]}

---------------------------------------------------------------------------
(* reporter.send: one point per entry the type switch has a case for *)

\* fmt.Sprintf("%s.<suffix>", name)
Sprintf(name, suffix) == name \o "." \o suffix

\* the body of the callback given to Each: the points it appends for (name, i),
\* name already prefixed, now read at the top of the callback
PointsFor(name, i, t) ==
    CASE i.kind = "Counter" ->
           <<[Measurement |-> Sprintf(name, "count"),
              Fields |-> [value |-> i.Count],
              Time |-> t]>>
      [] i.kind = "Gauge" ->
           <<[Measurement |-> Sprintf(name, "gauge"),
              Fields |-> [value |-> i.Value],
              Time |-> t]>>
      [] i.kind = "GaugeFloat64" ->
           <<[Measurement |-> Sprintf(name, "gauge"),
              Fields |-> [value |-> i.Value],
              Time |-> t]>>
      [] i.kind = "Histogram" ->
           <<[Measurement |-> Sprintf(name, "histogram"),
              Fields |-> [count |-> i.Count, max |-> i.Max, mean |-> i.Mean,
                          min |-> i.Min, stddev |-> i.StdDev,
                          variance |-> i.Variance,
                          p50 |-> i.Ps[1], p75 |-> i.Ps[2], p95 |-> i.Ps[3],
                          p99 |-> i.Ps[4], p999 |-> i.Ps[5], p9999 |-> i.Ps[6]],
              Time |-> t]>>
      [] i.kind = "Meter" ->
           <<[Measurement |-> Sprintf(name, "meter"),
              Fields |-> [count |-> i.Count, m1 |-> i.Rate1, m5 |-> i.Rate5,
                          m15 |-> i.Rate15, mean |-> i.RateMean],
              Time |-> t]>>
      [] i.kind = "Timer" ->
           <<[Measurement |-> Sprintf(name, "timer"),
              Fields |-> [count |-> i.Count,
                          max |-> IntDiv(i.Max, NsPerMs),
                          mean |-> FloatDiv(i.Mean, NsPerMs),
                          min |-> IntDiv(i.Min, NsPerMs),
                          stddev |-> FloatDiv(i.StdDev, NsPerMs),
                          variance |-> FloatDiv(i.Variance, NsPerMs),
                          p50 |-> FloatDiv(i.Ps[1], NsPerMs),
                          p75 |-> FloatDiv(i.Ps[2], NsPerMs),
                          p95 |-> FloatDiv(i.Ps[3], NsPerMs),
                          p99 |-> FloatDiv(i.Ps[4], NsPerMs),
                          p999 |-> FloatDiv(i.Ps[5], NsPerMs),
                          p9999 |-> FloatDiv(i.Ps[6], NsPerMs),
                          m1 |-> i.Rate1, m5 |-> i.Rate5, m15 |-> i.Rate15,
                          meanrate |-> i.RateMean],
              Time |-> t]>>
      [] OTHER -> <<>>

\* the prefix without its dot
HostPrefixBare(hostName) == hostName

\* host = hostName + "."
HostPrefix(hostName) == hostName \o "."

\* the points of the batch before are kept
KeepPts(previous) == previous

\* var pts []client.Point: send starts from no points, whatever it sent before
NewPts(previous) == <<>>

\* the clock read once, before the first entry
NowOnce(reads, k) == reads[1]

\* now := time.Now(), first thing in the callback: the k-th run of the callback
\* reads the clock for itself
Now(reads, k) == reads[k]

\* r.reg.Each(func ...): the callback run on the entries in the order `order`,
\* the clock reading reads[k] during its k-th run
RECURSIVE EachAppend(_, _, _, _, _, _)
EachAppend(pts, k, order, reads, host, r) ==
    IF k > Len(order) THEN pts
    ELSE EachAppend(pts \o PointsFor(host \o order[k], r[order[k]], Now(reads, k)),
                    k + 1, order, reads, host, r)

\* the readings of a clock that does not run backwards, n of them from t0 on
ClockRuns(t0, n) ==
    {s \in [1..n -> t0..MaxClock] : \A i, j \in 1..n : i <= j => s[i] <= s[j]}

---------------------------------------------------------------------------
(* The collaborators: net/url, os, the InfluxDB client *)

Urls == {"http://localhost:8086", "http://%zz"}

\* url.Parse: an invalid escape in the host is an error
ParseURL(raw) ==
    IF raw = "http://localhost:8086"
    THEN [u |-> [Scheme |-> "http", Host |-> "localhost:8086"], err |-> FALSE]
    ELSE [u |-> [Scheme |-> "", Host |-> ""], err |-> TRUE]

Database == "metrics"
Username == "reporter"
Password == "secret"

\* os.Hostname()
HostResults == {[name |-> "web1", err |-> FALSE], [name |-> "", err |-> TRUE]}

\* a nil *client.Client
NIL == [nil |-> TRUE, URL |-> [Scheme |-> "", Host |-> ""], Username |-> "",
        Password |-> ""]

\* client.NewClient(client.Config{URL, Username, Password}): a handle, or
\* (nil, err)
NewClient(u, ok) ==
    IF ok
    THEN [client |-> [nil |-> FALSE, URL |-> u, Username |-> Username,
                      Password |-> Password],
          err |-> FALSE]
    ELSE [client |-> NIL, err |-> TRUE]

\* reporter.makeClient: r.client takes whatever NewClient returned, error or not
MakeClient(u, ok) == NewClient(u, ok)

---------------------------------------------------------------------------
(* reporter.send *)

NoBatch == [Points |-> <<>>, Database |-> ""]

NoEmit ==
    [called |-> FALSE, again |-> FALSE, hostErr |-> FALSE, hostName |-> "", snap |-> [n \in Names |-> Absent],
     order |-> <<>>, reads |-> <<>>, built |-> FALSE, batch |-> NoBatch,
     wrote |-> FALSE, err |-> "nil", panic |-> FALSE]

\* the error of os.Hostname() dropped
HostnameIgnored(err) == FALSE

\* whether a failed os.Hostname() leaves send before the registry is read
HostnameAborts(err) == err

\* send() with os.Hostname() answering h, Each visiting in `order`, the clock
\* read as `reads`; `previous` is what the call of send() before this one did
Send(h, order, reads, previous) ==
    IF tagHost /\ HostnameAborts(h.err)
    THEN [NoEmit EXCEPT !.called = TRUE, !.again = previous.called,
                        !.hostErr = h.err, !.err = "hostname"]
    ELSE LET host == IF tagHost THEN HostPrefix(h.name) ELSE ""
             pts == EachAppend(NewPts(previous.batch.Points), 1, order, reads,
                               host, reg)
             bps == [Points |-> pts, Database |-> Database]
         IN  [called |-> TRUE, again |-> previous.called,
              hostErr |-> tagHost /\ h.err, hostName |-> h.name,
              snap |-> reg, order |-> order, reads |-> reads, built |-> TRUE,
              batch |-> bps,
              wrote |-> client # NIL,
              err |-> IF client # NIL /\ ~dbUp THEN "write" ELSE "nil",
              panic |-> client = NIL]

---------------------------------------------------------------------------
(* The startup call, the loop, and the environment *)

NoHealth == [called |-> FALSE, ping |-> "none", makes |-> 0, makeErr |-> FALSE]

\* the history of ping outcomes, the oldest dropped beyond MaxHist
Window(s) == IF Len(s) > MaxHist THEN Tail(s) ELSE s

GoodInit ==
    /\ client = NIL
    /\ armed = FALSE
    /\ now = 0
    /\ dbUp \in BOOLEAN
    /\ canBuild \in BOOLEAN
    /\ lastEmit = NoEmit
    /\ lastHealth = NoHealth
    /\ pings = <<>>
    /\ log = <<>>

\* the registries the loop is run on
LoopRegistries ==
    {[n \in Names |-> Absent],
     [latency |-> GaugeA, requests |-> CounterA]}

Init ==
    /\ pc = "init"
    /\ rawurl \in Urls
    /\ tagHost \in BOOLEAN
    /\ reg \in LoopRegistries
    /\ GoodInit

\* the error of the first makeClient() dropped
MakeNeverFails(err) == FALSE

\* if err := rep.makeClient(); err != nil { log; return }
MakeFails(err) == err

\* InfluxDB(r, d, url, database, username, password, tagHost), up to the
\* first wait of run()
Start ==
    /\ pc = "init"
    /\ LET p == ParseURL(rawurl)
           m == MakeClient(p.u, canBuild)
       IN  IF p.err
           THEN /\ log' = <<"unable to parse InfluxDB url">>
                /\ pc' = "returned"
                /\ UNCHANGED <<client, armed>>
           ELSE IF MakeFails(m.err)
           THEN /\ log' = <<"unable to make InfluxDB client">>
                /\ pc' = "returned"
                /\ client' = m.client
                /\ UNCHANGED armed
           ELSE /\ log' = <<>>
                /\ pc' = "run"
                /\ client' = m.client
                /\ armed' = TRUE
    /\ UNCHANGED <<rawurl, tagHost, reg, now, dbUp, canBuild, lastEmit,
                   lastHealth, pings>>

\* os.Hostname() is called only with tagHost set
HostnameCalls == IF tagHost THEN HostResults ELSE {[name |-> "", err |-> FALSE]}

\* Each runs only when send got past the hostname
VisitOrders(h) == IF tagHost /\ HostnameAborts(h.err) THEN {<<>>} ELSE EachOrders(reg)

\* case <-intervalTicker: send, and log its error; Write on a nil client panics
EmitTick ==
    /\ pc = "run"
    /\ armed
    /\ \E h \in HostnameCalls :
         \E order \in VisitOrders(h) :
         \E reads \in ClockRuns(now, Len(order)) :
            LET e == Send(h, order, reads, lastEmit)
            IN  /\ lastEmit' = e
                /\ pc' = IF e.panic THEN "crashed" ELSE "run"
                /\ log' = IF e.err # "nil" /\ ~e.panic
                          THEN <<"unable to send metrics to InfluxDB">>
                          ELSE <<>>
                /\ now' = IF e.built /\ Len(reads) > 0 THEN reads[Len(reads)]
                          ELSE now
    /\ UNCHANGED <<rawurl, tagHost, client, armed, reg, dbUp, canBuild,
                   lastHealth, pings>>

\* a failed ping only logged
RebuildNever(pingErr) == FALSE

\* whether a ping that returned err makes the loop rebuild the client
RebuildOn(pingErr) == pingErr

\* case <-pingTicker: ping, and on an error make the client again; Ping on a
\* nil client panics
HealthTick ==
    /\ pc = "run"
    /\ armed
    /\ IF client = NIL
       THEN /\ pc' = "crashed"
            /\ log' = <<>>
            /\ UNCHANGED <<client, lastHealth, pings>>
       ELSE LET pingErr == ~dbUp
                m == MakeClient(ParseURL(rawurl).u, canBuild)
            IN  /\ pc' = "run"
                /\ pings' = Window(Append(pings, IF pingErr THEN "fail" ELSE "ok"))
                /\ IF RebuildOn(pingErr)
                   THEN /\ client' = m.client
                        /\ lastHealth' = [called |-> TRUE,
                                          ping |-> IF pingErr THEN "fail" ELSE "ok",
                                          makes |-> 1, makeErr |-> m.err]
                        /\ log' = (IF pingErr
                                   THEN <<"got error while sending a ping to InfluxDB">>
                                   ELSE <<>>)
                                  \o (IF m.err
                                      THEN <<"unable to make InfluxDB client">>
                                      ELSE <<>>)
                   ELSE /\ client' = client
                        /\ lastHealth' = [called |-> TRUE,
                                          ping |-> IF pingErr THEN "fail" ELSE "ok",
                                          makes |-> 0, makeErr |-> FALSE]
                        /\ log' = <<>>
    /\ UNCHANGED <<rawurl, tagHost, armed, reg, now, dbUp, canBuild, lastEmit>>

\* the database goes away or comes back
DbChange ==
    /\ dbUp' = ~dbUp
    /\ UNCHANGED <<pc, rawurl, tagHost, client, armed, reg, now, canBuild,
                   lastEmit, lastHealth, pings, log>>

\* client construction starts or stops failing
BuildChange ==
    /\ canBuild' = ~canBuild
    /\ UNCHANGED <<pc, rawurl, tagHost, client, armed, reg, now, dbUp,
                   lastEmit, lastHealth, pings, log>>

\* time passes
Advance ==
    /\ now < MaxClock
    /\ now' = now + 1
    /\ UNCHANGED <<pc, rawurl, tagHost, client, armed, reg, dbUp, canBuild,
                   lastEmit, lastHealth, pings, log>>

\* the host process registers or unregisters metrics
HostChange ==
    /\ \E r \in LoopRegistries : r # reg /\ reg' = r
    /\ UNCHANGED <<pc, rawurl, tagHost, client, armed, now, dbUp, canBuild,
                   lastEmit, lastHealth, pings, log>>

Next ==
    \/ Start
    \/ EmitTick
    \/ HealthTick
    \/ DbChange
    \/ BuildChange
    \/ Advance
    \/ HostChange

Spec == Init /\ [][Next]_vars

\* the startup call runs, the tickers keep firing and the loop keeps serving them
FairSpec == Spec /\ WF_vars(Start) /\ WF_vars(EmitTick) /\ WF_vars(HealthTick)

---------------------------------------------------------------------------
(* send() alone, on every registry over Names: the reporter after a startup
   that succeeded, the emission ticker firing as time passes *)

TranslateInit ==
    /\ pc = "run"
    /\ rawurl = "http://localhost:8086"
    /\ tagHost \in BOOLEAN
    /\ reg \in Registries
    /\ client = MakeClient(ParseURL(rawurl).u, TRUE).client
    /\ armed = TRUE
    /\ now = 0
    /\ dbUp \in BOOLEAN
    /\ canBuild = TRUE
    /\ lastEmit = NoEmit
    /\ lastHealth = NoHealth
    /\ pings = <<>>
    /\ log = <<>>

TranslateNext == EmitTick \/ Advance

TranslateSpec == TranslateInit /\ [][TranslateNext]_vars

---------------------------------------------------------------------------
(* The claims about the startup call and the loop *)

\* the handle NewClient builds from the stored endpoint and credentials
StoredHandle ==
    [nil |-> FALSE, URL |-> ParseURL(rawurl).u, Username |-> Username,
     Password |-> Password]

\* C1: once run() is entered the loop never exits or crashes, whatever the
\* ticks and their outcomes: every step taken in the loop leaves it in the loop.
C1_LoopNeverExits == [][pc = "run" => pc' = "run"]_vars

\* C2: a ping that failed is followed in the same health tick by exactly one
\* makeClient() from the stored endpoint and credentials, a ping that succeeded
\* by none; after the pings [fail, fail, success] the reporter holds a usable
\* handle.
C2_FailedPingRebuildsOnce ==
    /\ lastHealth.ping = "fail" =>
          /\ lastHealth.makes = 1
          /\ client = (IF lastHealth.makeErr THEN NIL ELSE StoredHandle)
    /\ lastHealth.ping = "ok" => lastHealth.makes = 0 /\ client = StoredHandle
    /\ lastHealth.called =>
          lastHealth.ping = pings[Len(pings)]
    /\ (Len(pings) >= 3
        /\ SubSeq(pings, Len(pings) - 2, Len(pings)) = <<"fail", "fail", "ok">>)
          => client = StoredHandle

\* C2's case: the pings [fail, fail, success] were answered and the loop runs.
C2_Witness ==
    /\ pc = "run"
    /\ Len(pings) >= 3
    /\ SubSeq(pings, Len(pings) - 2, Len(pings)) = <<"fail", "fail", "ok">>
    /\ lastHealth.makes = 0

\* C3: in every state after a startup that succeeded the reporter holds a live
\* client handle, also after a health tick whose ping and rebuild both failed.
C3_OneLiveHandle == pc = "run" => client # NIL

\* C5: with tagHost set, an emission whose os.Hostname() fails calls Write not
\* at all and builds no batch, leaves the client handle as it was, returns the
\* error, which the loop logs, and leaves the loop running.
C5_HostnameFailureSendsNothing ==
    [][(EmitTick /\ lastEmit'.hostErr) =>
          /\ tagHost
          /\ ~lastEmit'.built
          /\ ~lastEmit'.wrote
          /\ lastEmit'.batch = NoBatch
          /\ lastEmit'.err = "hostname"
          /\ log' = <<"unable to send metrics to InfluxDB">>
          /\ client' = client
          /\ pc' = "run"]_vars

\* C5's case: the last emission failed on the hostname and the loop runs on.
C5_Witness ==
    /\ pc = "run"
    /\ tagHost
    /\ lastEmit.called
    /\ lastEmit.hostErr
    /\ log = <<"unable to send metrics to InfluxDB">>

\* C6: a url that does not parse, or a first NewClient that fails, makes the
\* startup call log and return: no ticker is made and no write or ping ever
\* happens; only when both succeed is the loop entered, and then the call
\* never returns.
C6_StartupFailureNeverRuns ==
    [][/\ (pc = "init" /\ pc' # "init") =>
             IF ParseURL(rawurl).err \/ ~canBuild
             THEN pc' = "returned" /\ ~armed' /\ Len(log') = 1
             ELSE pc' = "run" /\ armed' /\ client' = StoredHandle /\ log' = <<>>
       /\ pc \in {"init", "returned"} =>
             /\ ~armed /\ ~lastEmit.called /\ ~lastHealth.called /\ pings = <<>>
             /\ pc = "returned" =>
                   UNCHANGED <<pc, armed, client, lastEmit, lastHealth, pings, log>>
       /\ pc \in {"run", "crashed"} => pc' # "returned"]_vars

\* C6's case: the url parsed, the first NewClient failed and the call returned.
C6_Witness ==
    /\ pc = "returned"
    /\ ~ParseURL(rawurl).err
    /\ log = <<"unable to make InfluxDB client">>

\* C10: while the reporter has no valid handle every emission tick is still
\* handled, and, the tickers being served, if the loop was entered and from
\* some point on the database is reachable and NewClient succeeds, then from
\* some point on the reporter holds a working handle and its writes succeed.
C10_RecoveryIsEventual ==
    /\ [][(EmitTick /\ client = NIL) => pc' = "run"]_vars
    /\ (<>(pc = "run") /\ <>[](dbUp /\ canBuild)) =>
          <>[](pc = "run" /\ client # NIL /\ lastEmit.err # "write")

---------------------------------------------------------------------------
(* The claims about the batch send() builds *)

RecognizedKinds == {"Counter", "Gauge", "GaugeFloat64", "Histogram", "Meter", "Timer"}

\* the suffix the table gives a kind
TableSuffix(kind) ==
    CASE kind = "Counter" -> ".count"
      [] kind = "Gauge" -> ".gauge"
      [] kind = "GaugeFloat64" -> ".gauge"
      [] kind = "Histogram" -> ".histogram"
      [] kind = "Meter" -> ".meter"
      [] kind = "Timer" -> ".timer"

HistogramKeys ==
    {"count", "max", "mean", "min", "stddev", "variance",
     "p50", "p75", "p95", "p99", "p999", "p9999"}

\* the field keys the table gives a kind
TableKeys(kind) ==
    CASE kind \in {"Counter", "Gauge", "GaugeFloat64"} -> {"value"}
      [] kind = "Histogram" -> HistogramKeys
      [] kind = "Meter" -> {"count", "m1", "m5", "m15", "mean"}
      [] kind = "Timer" -> HistogramKeys \cup {"m1", "m5", "m15", "meanrate"}

\* the entries of the last emission's registry that get a point
RecognizedNames == {n \in Names : lastEmit.snap[n].kind \in RecognizedKinds}

\* the host prefix of the last emission
TablePrefix == IF tagHost THEN lastEmit.hostName \o "." ELSE ""

\* the runs of the callback, in order, that appended a point
PointVisits ==
    SelectSeq([k \in 1..Len(lastEmit.order) |-> k],
              LAMBDA k : lastEmit.snap[lastEmit.order[k]].kind \in RecognizedKinds)

\* C4 as claimed: all points of a batch carry one capture timestamp, taken once
\* per emission, even if the clock advances while the registry is iterated.
C4_SharedTimestamp ==
    lastEmit.built =>
        \A j, k \in DOMAIN lastEmit.batch.Points :
            lastEmit.batch.Points[j].Time = lastEmit.batch.Points[k].Time

\* C4 as amended: each point carries the clock reading taken when its own
\* entry is visited, once per metric; with a clock that does not run backwards
\* the times do not decrease along the batch.
C4_TimestampPerVisit ==
    lastEmit.built =>
        LET pts == lastEmit.batch.Points
        IN  /\ Len(pts) = Len(PointVisits)
            /\ \A j \in DOMAIN pts : pts[j].Time = lastEmit.reads[PointVisits[j]]
            /\ \A j, k \in DOMAIN pts : j <= k => pts[j].Time <= pts[k].Time

\* C4's case: a batch of two points, the clock having advanced between them.
C4_Witness ==
    /\ lastEmit.built
    /\ Len(lastEmit.batch.Points) = 2
    /\ lastEmit.batch.Points[1].Time < lastEmit.batch.Points[2].Time

\* C7: the batch holds exactly one point for each entry of a recognized kind
\* and none for any other entry; the point is named host prefix (with tagHost
\* only), metric name, the kind's suffix, and its field keys are exactly the
\* table's.
C7_OnePointPerRecognizedEntry ==
    lastEmit.built =>
        LET pts == lastEmit.batch.Points
        IN  /\ Len(pts) = Cardinality(RecognizedNames)
            /\ ~lastEmit.hostErr
            /\ \A n \in RecognizedNames :
                  Cardinality({k \in DOMAIN pts :
                      /\ pts[k].Measurement =
                            TablePrefix \o n \o TableSuffix(lastEmit.snap[n].kind)
                      /\ DOMAIN pts[k].Fields = TableKeys(lastEmit.snap[n].kind)}) = 1

\* C7's case: with tagHost set, an entry of an unknown kind beside a Meter.
C7_Witness ==
    /\ lastEmit.built
    /\ tagHost
    /\ lastEmit.snap["latency"].kind = "Meter"
    /\ lastEmit.snap["requests"].kind = "Healthcheck"
    /\ Len(lastEmit.batch.Points) = 1

\* the float64 an int64 field would be
OfInt(a) == Float(a, 1)

\* C8: every duration field of a Timer's point is the instrument's nanosecond
\* value divided by 1,000,000, also when that is no whole number (1,500,000 ns
\* gives 1.5), and the rate fields are the instrument's rates.
C8_TimerMilliseconds ==
    lastEmit.built =>
        \A k \in DOMAIN lastEmit.batch.Points, n \in Names :
            LET p == lastEmit.batch.Points[k]
                i == lastEmit.snap[n]
                f == p.Fields
            IN  (i.kind = "Timer" /\ p.Measurement = TablePrefix \o n \o ".timer") =>
                   /\ OfInt(f.max) = Float(i.Max, 1000000)
                   /\ OfInt(f.min) = Float(i.Min, 1000000)
                   /\ f.mean = Float(i.Mean.n, i.Mean.d * 1000000)
                   /\ f.stddev = Float(i.StdDev.n, i.StdDev.d * 1000000)
                   /\ f.variance = Float(i.Variance.n, i.Variance.d * 1000000)
                   /\ <<f.p50, f.p75, f.p95, f.p99, f.p999, f.p9999>> =
                         [q \in 1..6 |-> Float(i.Ps[q].n, i.Ps[q].d * 1000000)]
                   /\ <<f.m1, f.m5, f.m15, f.meanrate>> =
                         <<i.Rate1, i.Rate5, i.Rate15, i.RateMean>>

\* a batch without its timestamps
Untimed(batch) ==
    [Database |-> batch.Database,
     Points |-> [k \in DOMAIN batch.Points |->
                    [Measurement |-> batch.Points[k].Measurement,
                     Fields |-> batch.Points[k].Fields]]]

\* an emission following one on the same registry, settings and hostname
SameSnapshotAgain ==
    /\ EmitTick
    /\ lastEmit.built
    /\ lastEmit'.built
    /\ lastEmit'.snap = lastEmit.snap
    /\ lastEmit'.hostName = lastEmit.hostName

\* C9 as claimed: two emissions on an unchanged registry give batches equal as
\* ordered sequences of points in everything but the timestamps.
C9_SameSequenceOfPoints ==
    [][SameSnapshotAgain => Untimed(lastEmit'.batch) = Untimed(lastEmit.batch)]_vars

\* the points of a batch without their timestamps, as a set
PointSet(batch) == {Untimed(batch).Points[k] : k \in DOMAIN batch.Points}

\* C9 as amended: the two batches have the same database name, the same number
\* of points and the same points up to the timestamps, in an order that may
\* differ with the order in which the registry is iterated.
C9_SamePointsAnyOrder ==
    [][SameSnapshotAgain =>
          /\ lastEmit'.batch.Database = lastEmit.batch.Database
          /\ Len(lastEmit'.batch.Points) = Len(lastEmit.batch.Points)
          /\ PointSet(lastEmit'.batch) = PointSet(lastEmit.batch)
          /\ Cardinality(PointSet(lastEmit.batch)) = Len(lastEmit.batch.Points)]_vars

\* C9's case: a second emission that built a batch of two points.
C9_Witness ==
    /\ lastEmit.again
    /\ lastEmit.built
    /\ lastEmit.snap = reg
    /\ Len(lastEmit.batch.Points) = 2

=============================================================================
